---- MODULE Spec2Model ----
(***************************************************************************)
(* Model of util/project_file_packer.py (class ProjectFilePacker).         *)
(*                                                                         *)
(* Strings are sequences of one-character strings, a filesystem path is a  *)
(* sequence of components (each component a string), and the filesystem is *)
(* a set of directories plus a map from file paths to contents.  pathlib   *)
(* is modelled with its POSIX flavour: "/" is the only separator and a     *)
(* backslash or a colon is an ordinary character of a component.           *)
(***************************************************************************)
EXTENDS Integers, Sequences, FiniteSets, TLC

(***************************************************************************)
(* Bounds.                                                                 *)
(***************************************************************************)
MaxMapLen == 2

Procs == {1, 2}
SeqProcs == {1}

(***************************************************************************)
(* Strings.                                                                *)
(***************************************************************************)
SLASH == "/"
BSLASH == "\\"
DOT == "."
DOTDOT == <<".", ".">>
EMPTY == <<>>
ZIPEXT == <<".", "z", "i", "p">>

Contains(s, c) == \E i \in 1..Len(s) : s[i] = c

HasSubstr(s, sub) ==
  \E i \in 1..(Len(s) - Len(sub) + 1) : SubSeq(s, i, i + Len(sub) - 1) = sub

RECURSIVE SplitOn(_, _)
\* str.split(sep): the segments between the occurrences of sep, empty ones kept
SplitOn(s, sep) ==
  IF ~Contains(s, sep) THEN <<s>>
  ELSE LET i == CHOOSE j \in 1..Len(s) :
                  s[j] = sep /\ \A k \in 1..(j - 1) : s[k] # sep
       IN  <<SubSeq(s, 1, i - 1)>> \o SplitOn(SubSeq(s, i + 1, Len(s)), sep)

RECURSIVE SelectParts(_)
\* pathlib drops the empty and the "." segments when it parses a path
SelectParts(segs) ==
  IF segs = <<>> THEN <<>>
  ELSE IF Head(segs) = EMPTY \/ Head(segs) = <<DOT>>
       THEN SelectParts(Tail(segs))
       ELSE <<Head(segs)>> \o SelectParts(Tail(segs))

\* PurePosixPath.is_absolute(): the path has a root
IsAbsolute(s) == Len(s) > 0 /\ s[1] = SLASH

\* the root component: "//" for exactly two leading slashes, "/" otherwise
PathRoot(s) ==
  IF Len(s) >= 2 /\ s[2] = SLASH /\ ~(Len(s) >= 3 /\ s[3] = SLASH)
  THEN <<SLASH, SLASH>> ELSE <<SLASH>>

\* Path(s).parts
PathParts(s) ==
  IF IsAbsolute(s) THEN <<PathRoot(s)>> \o SelectParts(SplitOn(s, SLASH))
  ELSE SelectParts(SplitOn(s, SLASH))

IsPrefix(a, b) == Len(a) <= Len(b) /\ SubSeq(b, 1, Len(a)) = a

\* line 198: str(target) starts with str(root) + os.sep, or target is root.
\* For the root directory the text looked for is "//", which no resolved
\* path starts with
Contained(root, target) ==
  target = root \/ (root # <<>> /\ IsPrefix(root, target))

Parent(p) == IF p = <<>> THEN <<>> ELSE SubSeq(p, 1, Len(p) - 1)

\* base / name for a relative name: the parts of name appended to base
Join(base, name) == base \o PathParts(name)

RECURSIVE JoinStr(_)
\* a path as text: the components joined by "/"
JoinStr(path) ==
  IF path = <<>> THEN <<>>
  ELSE IF Len(path) = 1 THEN path[1]
  ELSE path[1] \o <<SLASH>> \o JoinStr(Tail(path))

\* Path.as_posix() of a resolved path, the working directory being "/"
AsPosix(path) == <<SLASH>> \o JoinStr(path)

(***************************************************************************)
(* Error kinds, by the raise site of the FilePackError or OSError.         *)
(***************************************************************************)
NoErr == "none"
InvalidFileMap == "InvalidFileMap"
InvalidJson == "InvalidJson"
InvalidProjectName == "InvalidProjectName"
UnsafePath == "UnsafePath"
IOFailure == "IOFailure"
FileNotFound == "FileNotFound"

ValidationErrors == {InvalidFileMap, InvalidJson, InvalidProjectName, UnsafePath}

(***************************************************************************)
(* Parsing and validation.                                                 *)
(***************************************************************************)
StrVal(s) == [t |-> "str", s |-> s]
IntVal(s) == [t |-> "int", s |-> s]

RECURSIVE EnsureStrStrDict_ValuesOnly(_)
\* variant: only the values are checked
EnsureStrStrDict_ValuesOnly(items) ==
  IF items = <<>> THEN [err |-> NoErr, map |-> <<>>]
  ELSE IF Head(items)[2].t # "str"
       THEN [err |-> InvalidFileMap, map |-> <<>>]
       ELSE LET rest == EnsureStrStrDict_ValuesOnly(Tail(items))
            IN  IF rest.err # NoErr THEN rest
                ELSE [err |-> NoErr,
                      map |-> <<<<Head(items)[1].s, Head(items)[2].s>>>> \o rest.map]

RECURSIVE EnsureStrStrDict(_)
\* first offending item raises; otherwise the items as <<key, content>> pairs
EnsureStrStrDict(items) ==
  IF items = <<>> THEN [err |-> NoErr, map |-> <<>>]
  ELSE IF Head(items)[1].t # "str" \/ Head(items)[2].t # "str"
       THEN [err |-> InvalidFileMap, map |-> <<>>]
       ELSE LET rest == EnsureStrStrDict(Tail(items))
            IN  IF rest.err # NoErr THEN rest
                ELSE [err |-> NoErr,
                      map |-> <<<<Head(items)[1].s, Head(items)[2].s>>>> \o rest.map]

RECURSIVE DictOf(_)
\* json.loads builds a dict: a repeated key keeps its first position and
\* takes its last value
DictOf(items) ==
  IF items = <<>> THEN <<>>
  ELSE LET init == DictOf(SubSeq(items, 1, Len(items) - 1))
           last == items[Len(items)]
       IN  IF \E i \in 1..Len(init) : init[i][1] = last[1]
           THEN [i \in 1..Len(init) |->
                   IF init[i][1] = last[1] THEN last ELSE init[i]]
           ELSE Append(init, last)

ParseFileMap(raw) ==
  IF raw.tag = "dict" THEN EnsureStrStrDict(raw.items)
  ELSE IF raw.tag = "text"
       THEN IF ~raw.wf THEN [err |-> InvalidJson, map |-> <<>>]
            ELSE IF raw.top # "obj" THEN [err |-> InvalidFileMap, map |-> <<>>]
            ELSE EnsureStrStrDict(DictOf(raw.items))
  ELSE [err |-> InvalidFileMap, map |-> <<>>]

\* variant: ".." refused only as the whole name
ValidateProjectName_WholeName(pn) ==
  IF pn = EMPTY THEN InvalidProjectName
  ELSE IF Contains(pn, SLASH) \/ Contains(pn, BSLASH) THEN InvalidProjectName
  ELSE IF pn = DOTDOT THEN InvalidProjectName
  ELSE NoErr

ValidateProjectName(pn) ==
  IF pn = EMPTY THEN InvalidProjectName
  ELSE IF Contains(pn, SLASH) \/ Contains(pn, BSLASH) THEN InvalidProjectName
  ELSE IF HasSubstr(pn, DOTDOT) THEN InvalidProjectName
  ELSE NoErr

SanitizeRelpath(rel) ==
  IF IsAbsolute(rel) THEN [err |-> UnsafePath, parts |-> <<>>]
  ELSE IF \E i \in 1..Len(PathParts(rel)) :
            PathParts(rel)[i] = DOTDOT \/ PathParts(rel)[i] = EMPTY
       THEN [err |-> UnsafePath, parts |-> <<>>]
       ELSE [err |-> NoErr, parts |-> PathParts(rel)]

(***************************************************************************)
(* Filesystem.                                                             *)
(***************************************************************************)
\* a file: its kind, its text (a sequence of characters) or its archive
\* entries, and who has it open
\* for writing (w maps each such invocation to the archive entries it has
\* stored so far); x tells that two writers have shared it
TextFile(s) ==
  [t |-> "text", s |-> s, entries |-> {}, w |-> <<>>, x |-> FALSE]
ZipFile(entries) ==
  [t |-> "zip", s |-> <<>>, entries |-> entries, w |-> <<>>, x |-> FALSE]
NoFile == [t |-> "absent", s |-> <<>>, entries |-> {}, w |-> <<>>, x |-> FALSE]

\* what is left of an archive whose writing was cut short or that two
\* invocations have written into at once: not a readable archive
BadZip == [t |-> "bad", s |-> <<>>, entries |-> {}, w |-> <<>>, x |-> FALSE]

\* file with p added to the invocations that have it open
HeldBy(file, p) ==
  [file EXCEPT !.w = [q \in DOMAIN file.w \cup {p} |->
                        IF q = p THEN {} ELSE file.w[q]],
               !.x = file.x \/ DOMAIN file.w \ {p} # {}]

\* w once p has closed the file
DropWriter(w, p) ==
  IF DOMAIN w \ {p} = {} THEN <<>> ELSE [q \in DOMAIN w \ {p} |-> w[q]]

EmptyFS == [dirs |-> {<<>>}, files |-> [f \in {} |-> TextFile(<<>>)]]

IsDir(fs, p) == p \in fs.dirs
IsFile(fs, p) == p \in DOMAIN fs.files
Exists(fs, p) == IsDir(fs, p) \/ IsFile(fs, p)

Prefixes(p) == {SubSeq(p, 1, n) : n \in 0..Len(p)}

\* Path.mkdir(parents=True, exist_ok=True)
EnsureDir(fs, p) ==
  IF \E q \in Prefixes(p) : IsFile(fs, q)
  THEN [ok |-> FALSE, fs |-> fs]
  ELSE [ok |-> TRUE, fs |-> [fs EXCEPT !.dirs = @ \cup Prefixes(p)]]

\* Path.mkdir(parents=True, exist_ok=True) made to fail by the environment:
\* the trees it can leave, some of the missing ancestors created
EnsureDirFail(fs, p) ==
  IF \E q \in Prefixes(p) : IsFile(fs, q) THEN {fs}
  ELSE {[fs EXCEPT !.dirs = @ \cup {q \in Prefixes(p) : Len(q) <= n}] :
          n \in 0..(IF p = <<>> THEN 0 ELSE Len(p) - 1)}

EnsureDirRuns(fs, p) ==
  {EnsureDir(fs, p)} \cup {[ok |-> FALSE, fs |-> g] : g \in EnsureDirFail(fs, p)}

\* what lies under directory p
Under(fs, p) ==
  {q \in fs.dirs \cup DOMAIN fs.files : IsPrefix(p, q) /\ q # p}

Without(fs, gone) ==
  [dirs  |-> fs.dirs \ gone,
   files |-> [f \in DOMAIN fs.files \ gone |-> fs.files[f]]]

\* shutil.rmtree(p) failing part-way: what it can have removed before the
\* unlink or rmdir that raises.  A directory goes after all it holds, and
\* the directories left with something removed under them lie on one path
RmTreeCuts(fs, p) ==
  {gone \in SUBSET Under(fs, p) :
     /\ \A d \in gone : \A q \in Under(fs, p) : IsPrefix(d, q) => q \in gone
     /\ \A d, e \in (fs.dirs \cap Under(fs, p)) \ gone :
          ((\E q \in gone : IsPrefix(d, q)) /\ (\E q \in gone : IsPrefix(e, q)))
            => (IsPrefix(d, e) \/ IsPrefix(e, d))}

\* variant: empties the directory and leaves the directory itself
RmTree_KeepsRoot(fs, p) ==
  IF ~IsDir(fs, p) THEN [ok |-> FALSE, fs |-> fs]
  ELSE [ok |-> p # <<>>,
        fs |-> [dirs  |-> {d \in fs.dirs : ~IsPrefix(p, d)} \cup {<<>>, p},
                files |-> [f \in {g \in DOMAIN fs.files : ~IsPrefix(p, g)}
                             |-> fs.files[f]]]]

\* shutil.rmtree(p) of an existing p: a directory goes with everything
\* under it, anything else raises; the root directory is emptied and the
\* rmdir of it raises
RmTree(fs, p) ==
  IF ~IsDir(fs, p) THEN [ok |-> FALSE, fs |-> fs]
  ELSE [ok |-> p # <<>>,
        fs |-> [dirs  |-> {d \in fs.dirs : ~IsPrefix(p, d)} \cup {<<>>},
                files |-> [f \in {g \in DOMAIN fs.files : ~IsPrefix(p, g)}
                             |-> fs.files[f]]]]

\* Path.write_text(content): creates or truncates the file
WriteText(fs, p, c) ==
  IF IsDir(fs, p) \/ ~IsDir(fs, Parent(p)) THEN [ok |-> FALSE, fs |-> fs]
  ELSE [ok |-> TRUE,
        fs |-> [fs EXCEPT !.files =
                  [f \in DOMAIN fs.files \cup {p} |->
                     IF f = p THEN c ELSE fs.files[f]]]]

\* an unlink that leaves the file where it is
Unlink_Keeps(fs, p) ==
  IF ~IsFile(fs, p) THEN [ok |-> FALSE, fs |-> fs]
  ELSE [ok |-> TRUE, fs |-> fs]

\* Path.unlink() of an existing p
Unlink(fs, p) ==
  IF ~IsFile(fs, p) THEN [ok |-> FALSE, fs |-> fs]
  ELSE [ok |-> TRUE,
        fs |-> [fs EXCEPT !.files =
                  [f \in DOMAIN fs.files \ {p} |-> fs.files[f]]]]

\* what is at path p: a file's content, or NoFile
FileAt(fs, p) == IF IsFile(fs, p) THEN fs.files[p] ELSE NoFile

(***************************************************************************)
(* Archive building (_make_zip).                                           *)
(***************************************************************************)
ZipPath(out_dir, pn) == Join(out_dir, pn \o ZIPEXT)

\* src_dir.rglob("*") restricted to regular files
RglobFiles(fs, src) ==
  IF ~IsDir(fs, src) THEN {}
  ELSE {f \in DOMAIN fs.files : IsPrefix(src, f) /\ f # src}

\* file.relative_to(src_dir.parent)
ArcName(src, f) == SubSeq(f, Len(Parent(src)) + 1, Len(f))

\* the bytes zf.write(file) stores: a text file's text; the archive being
\* written reads back as an incomplete container, another archive as its
\* container bytes
EntryBytes(fs, f, zip_path) ==
  IF f = zip_path THEN <<"PARTIAL">>
  ELSE IF fs.files[f].t = "zip" THEN <<"ZIPBYTES">>
  ELSE IF fs.files[f].t = "bad" THEN <<"BADBYTES">>
  ELSE fs.files[f].s

ZipEntries(fs, src, zip_path) ==
  {<<ArcName(src, f), EntryBytes(fs, f, zip_path)>> : f \in RglobFiles(fs, src)}

\* lines 211-217: replace whatever is at zip_path by a new, empty archive
ZipOpen(fs, zip_path) ==
  LET u == IF Exists(fs, zip_path) THEN Unlink(fs, zip_path)
           ELSE [ok |-> TRUE, fs |-> fs]
  IN  IF ~u.ok THEN u
      ELSE IF ~IsDir(u.fs, Parent(zip_path)) THEN [ok |-> FALSE, fs |-> u.fs]
      ELSE WriteText(u.fs, zip_path, ZipFile({}))

\* the same made to fail by the environment: at exists() or unlink(), or
\* at the opening, the old archive gone
ZipOpenFail(fs, zip_path) ==
  {fs} \cup (IF Unlink(fs, zip_path).ok THEN {Unlink(fs, zip_path).fs} ELSE {})

ZipOpenRuns(fs, zip_path) ==
  {ZipOpen(fs, zip_path)}
    \cup {[ok |-> FALSE, fs |-> g] : g \in ZipOpenFail(fs, zip_path)}

(***************************************************************************)
(* Staging helpers.                                                        *)
(***************************************************************************)
\* _recreate_dir
RecreateDir(fs, p) ==
  LET r == IF Exists(fs, p) THEN RmTree(fs, p) ELSE [ok |-> TRUE, fs |-> fs]
  IN  IF ~r.ok THEN r ELSE EnsureDir(r.fs, p)

\* _recreate_dir made to fail by the environment: in rmtree, or in mkdir
\* after it
RecreateDirFail(fs, p) ==
  IF ~Exists(fs, p) THEN EnsureDirFail(fs, p)
  ELSE IF ~IsDir(fs, p) THEN {fs}
  ELSE {Without(fs, gone) : gone \in RmTreeCuts(fs, p)}
         \cup (IF RmTree(fs, p).ok THEN EnsureDirFail(RmTree(fs, p).fs, p)
               ELSE {})

RecreateDirRuns(fs, p) ==
  {RecreateDir(fs, p)} \cup {[ok |-> FALSE, fs |-> g] : g \in RecreateDirFail(fs, p)}

\* variant: a failing removal is not swallowed
SafeRemoveDir_Raises(fs, p, envFail, gone) ==
  IF ~Exists(fs, p) THEN [failed |-> FALSE, raised |-> FALSE, fs |-> fs]
  ELSE IF ~RmTree(fs, p).ok
       THEN [failed |-> TRUE, raised |-> TRUE, fs |-> RmTree(fs, p).fs]
  ELSE IF envFail
       THEN [failed |-> TRUE, raised |-> TRUE, fs |-> Without(fs, gone)]
       ELSE [failed |-> FALSE, raised |-> FALSE, fs |-> RmTree(fs, p).fs]

\* _safe_remove_dir: a failing removal is swallowed.  envFail is the
\* environment making rmtree raise after it has removed gone; raised tells
\* whether the exception leaves the helper.
SafeRemoveDir(fs, p, envFail, gone) ==
  IF ~Exists(fs, p) THEN [failed |-> FALSE, raised |-> FALSE, fs |-> fs]
  ELSE IF ~RmTree(fs, p).ok
       THEN [failed |-> TRUE, raised |-> FALSE, fs |-> RmTree(fs, p).fs]
  ELSE IF envFail
       THEN [failed |-> TRUE, raised |-> FALSE, fs |-> Without(fs, gone)]
       ELSE [failed |-> FALSE, raised |-> FALSE, fs |-> RmTree(fs, p).fs]

SafeRemoveDirRuns(fs, p) ==
  {SafeRemoveDir(fs, p, FALSE, {})}
    \cup {SafeRemoveDir(fs, p, TRUE, gone) : gone \in RmTreeCuts(fs, p)}

\* one iteration of the loop of _write_files
WriteOne(fs, root, rel, content) ==
  LET san == SanitizeRelpath(rel)
      target == root \o san.parts
  IN  IF san.err # NoErr THEN [err |-> san.err, fs |-> fs]
      ELSE IF ~Contained(root, target) THEN [err |-> UnsafePath, fs |-> fs]
      ELSE LET m == EnsureDir(fs, Parent(target))
           IN  IF ~m.ok THEN [err |-> IOFailure, fs |-> m.fs]
               ELSE LET w == WriteText(m.fs, target, TextFile(content))
                    IN  [err |-> IF w.ok THEN NoErr ELSE IOFailure, fs |-> w.fs]

\* the same made to fail by the environment, once the key has passed the
\* checks: in parent.mkdir, at the opening of the file, or at the writing,
\* the file left with a proper prefix of the content (empty for an empty
\* content)
WriteOneFail(fs, root, rel, content) ==
  LET san == SanitizeRelpath(rel)
      target == root \o san.parts
      m == EnsureDir(fs, Parent(target))
      cut == {SubSeq(content, 1, n) :
                n \in 0..(IF content = <<>> THEN 0 ELSE Len(content) - 1)}
  IN  IF san.err # NoErr \/ ~Contained(root, target) THEN {}
      ELSE EnsureDirFail(fs, Parent(target))
             \cup (IF m.ok THEN {m.fs} ELSE {})
             \cup (IF m.ok /\ WriteText(m.fs, target, TextFile(<<>>)).ok
                   THEN {WriteText(m.fs, target, TextFile(c)).fs : c \in cut}
                   ELSE {})

WriteOneRuns(fs, root, rel, content) ==
  {WriteOne(fs, root, rel, content)}
    \cup {[err |-> IOFailure, fs |-> g] : g \in WriteOneFail(fs, root, rel, content)}

(***************************************************************************)
(* Local storage (file2storage, _to_file_url).                             *)
(***************************************************************************)
FileScheme == <<"f", "i", "l", "e", ":", "/", "/">>

\* the characters urllib.parse.quote leaves alone with safe="/"
QuoteSafe ==
  { "a", "b", "d", "e", "i", "l", "m", "o", "p", "r", "s", "w", "z", "C",
    "1", "2", "_", ".", "-", "~", "/" }

\* the two hexadecimal digits of the characters of the inputs that quote
\* encodes
HexOf(c) ==
  CASE c = "\\" -> <<"5", "C">>
    [] c = ":" -> <<"3", "A">>
    [] c = " " -> <<"2", "0">>
    [] c = "%" -> <<"2", "5">>

RECURSIVE Quote(_)
\* urllib.parse.quote(s)
Quote(s) ==
  IF s = <<>> THEN <<>>
  ELSE (IF Head(s) \in QuoteSafe THEN <<Head(s)>>
        ELSE <<"%">> \o HexOf(Head(s))) \o Quote(Tail(s))

ToFileUrl(path) == FileScheme \o Quote(AsPosix(path))

\* file2storage on a resolved path; p.exists() lets through the
\* PermissionError of a lookup the system denies
File2Storage(fs, path, denied) ==
  IF denied THEN [err |-> IOFailure, url |-> <<>>, fs |-> fs]
  ELSE IF ~Exists(fs, path) \/ ~IsFile(fs, path)
  THEN [err |-> FileNotFound, url |-> <<>>, fs |-> fs]
  ELSE [err |-> NoErr, url |-> ToFileUrl(path), fs |-> fs]

(***************************************************************************)
(* Inputs the calls are drawn from.                                        *)
(***************************************************************************)
K_a == <<"a">>
K_sb == <<"s", "/", "/", "b">>
K_up == <<".", ".", "/", "e">>
K_bs == <<".", ".", "\\", "e">>
K_drive == <<"C", ":", "\\", "a">>
K_abs == <<"/", "a">>
K_deep == <<"d", "/", ".", ".", "/", ".", ".", "/", "e">>
K_dota == <<".", "/", "a">>
K_ab == <<"a", "/", "b">>
K_empty == <<>>
K_b == <<"b">>

CoreKeys == {K_a, K_sb, K_up}
Contents == {<<"1">>, <<"1", "2">>}

DictInput(items) == [tag |-> "dict", wf |-> TRUE, top |-> "obj", items |-> items]
TextInput(wf, top, items) == [tag |-> "text", wf |-> wf, top |-> top, items |-> items]
OtherInput == [tag |-> "other", wf |-> TRUE, top |-> "obj", items |-> <<>>]

Item(k, c) == <<StrVal(k), StrVal(c)>>

\* dicts over the core keys: every order of up to MaxMapLen distinct keys,
\* the first key with either content
CoreItems ==
  {Item(K_a, c) : c \in Contents} \cup {Item(k, <<"1">>) : k \in CoreKeys \ {K_a}}
CoreSeqs ==
  UNION {{q \in [1..n -> CoreItems] :
            \A i, j \in 1..n : i # j => q[i][1] # q[j][1]} : n \in 0..MaxMapLen}
CoreMaps == {DictInput(q) : q \in CoreSeqs}

\* dicts exercising the remaining keys
ExtraMaps ==
  { DictInput(<<Item(K_bs, <<"1">>)>>),
    DictInput(<<Item(K_drive, <<"1">>)>>),
    DictInput(<<Item(K_abs, <<"1">>)>>),
    DictInput(<<Item(K_deep, <<"1">>)>>),
    DictInput(<<Item(K_empty, <<"1">>)>>),
    DictInput(<<Item(K_a, <<"1">>), Item(K_dota, <<"2">>)>>),
    DictInput(<<Item(K_a, <<"1">>), Item(K_ab, <<"2">>)>>),
    DictInput(<<Item(K_ab, <<"1">>), Item(K_a, <<"2">>)>>) }

\* inputs the mapping parser rejects, and JSON text it accepts
BadValueMap == DictInput(<<<<StrVal(K_a), IntVal(<<"1", "2", "3">>)>>>>)
BadKeyMap == DictInput(<<<<IntVal(<<"1">>), StrVal(<<"1">>)>>>>)
MalformedText == TextInput(FALSE, "obj", <<>>)
ArrayText == TextInput(TRUE, "arr", <<>>)
BadValueText == TextInput(TRUE, "obj", <<<<StrVal(K_a), IntVal(<<"1", "2", "3">>)>>>>)
GoodText == TextInput(TRUE, "obj", <<Item(K_a, <<"1">>), Item(K_a, <<"2">>)>>)
ParserMaps ==
  {BadValueMap, BadKeyMap, MalformedText, ArrayText, BadValueText, GoodText,
   OtherInput}

FileMaps == CoreMaps \cup ExtraMaps \cup ParserMaps

N_d == <<"d">>
N_dot == <<".">>
GoodNames == {N_d, N_dot}
BadNames ==
  { <<>>, <<"a", "/", "b">>, <<"a", "\\", "b">>, <<".", ".">>,
    <<"d", ".", ".">>, <<"d", ".", ".", "m">> }

\* resolved directories
D_w == <<<<"w">>>>
D_o == <<<<"o">>>>
D_wd == <<<<"w">>, <<"d">>>>
D_wds == <<<<"w">>, <<"d">>, <<"s">>>>
D_v == <<<<"v">>>>
OutDirs == {D_o, D_w, D_wd, D_wds}

\* base is the staging root of invocation 1, base2 that of invocation 2
Scenarios ==
  { [base |-> D_w, base2 |-> D_w, out |-> o, vpn |-> N_d] : o \in OutDirs } \cup
  { [base |-> D_w, base2 |-> D_w, out |-> o, vpn |-> N_dot] : o \in {D_o, D_w} }

\* two invocations at once: one staging root for both, or one each; the
\* output directory and the project name are the same
ConcScenarios ==
  { [base |-> D_w, base2 |-> b, out |-> D_o, vpn |-> N_d] : b \in {D_w, D_v} }

ConcMaps ==
  { DictInput(<<Item(K_a, <<"1">>)>>),
    DictInput(<<Item(K_b, <<"2">>)>>),
    DictInput(<<Item(K_a, <<"1">>), Item(K_b, <<"2">>)>>) }

\* a filesystem left by earlier use: both directories exist, the staging
\* directory holds a stale file and a placeholder sits at the archive path
UsedFS(sc) ==
  LET a == EnsureDir(EmptyFS, Join(sc.base, sc.vpn) ).fs
      b == EnsureDir(a, sc.out).fs
      c == WriteText(b, Join(sc.base, sc.vpn) \o <<<<"r">>>>, TextFile(<<"o", "l", "d">>)).fs
  IN  WriteText(c, ZipPath(sc.out, sc.vpn), TextFile(<<"o", "l", "d">>)).fs

(***************************************************************************)
(* State.                                                                  *)
(***************************************************************************)
VARIABLES
  fs,      \* the filesystem
  scen,    \* staging root, output directory and project name in use
  pc,      \* pc[p]: where invocation p of json2file stands
  args,    \* args[p]: file_map and project_name of the call
  fmd,     \* fmd[p]: file_map_dict, the parsed map in insertion order
  idx,     \* idx[p]: position of the loop of _write_files
  err,     \* err[p]: the error in flight or raised
  ret,     \* ret[p]: zip_full_path once _make_zip has returned
  fs0,     \* fs0[p]: the filesystem when the call started; once the call
           \* has recreated its staging directory, less what was in it
  note,    \* note[p]: what the call has done so far
  zipFrom, \* the map of the call that wrote the archive now at the archive
           \* path of the scenario, and whether that call completed it
  pub,     \* pub[p]: the outcome of the last file2storage call of caller p
           \* since its last json2file call
  scan     \* scan[p]: the directory listing invocation p is working through
           \* (rmtree, rglob): the directory, the entries left, and whether
           \* the directory it was taken from has been removed since

vars ==
  <<fs, scen, pc, args, fmd, idx, err, ret, fs0, note, zipFrom, pub, scan>>

NoArgs == [file_map |-> OtherInput, project_name |-> <<>>]
NoRet == [set |-> FALSE, zip_path |-> <<>>]
NoFrom == [set |-> FALSE, map |-> <<>>, complete |-> FALSE]
NoPub == [set |-> FALSE, path |-> <<>>, err |-> NoErr, url |-> <<>>,
          touched |-> FALSE, denied |-> FALSE]
NoScan == [dir |-> <<>>, left |-> {}, stale |-> FALSE, remade |-> FALSE]
NoNote == [entered |-> FALSE, wrote |-> 0, pend |-> NoErr, opened |-> FALSE,
           built |-> FALSE, rmFailed |-> FALSE, missed |-> FALSE,
           prev |-> NoFrom]

\* the archive path of the scenario's project name, and the origin of the
\* archive there once the filesystem has become newfs
ScenZip == ZipPath(scen.out, scen.vpn)
KeepFrom(newfs) ==
  IF IsFile(newfs, ScenZip) /\ newfs.files[ScenZip].t = "zip" THEN zipFrom
  ELSE NoFrom

\* tmp_project_dir, out_dir and the archive path of invocation p
BaseDir(p) == IF p = 1 THEN scen.base ELSE scen.base2
OutDir(p) == scen.out
TmpProjectDir(p) == Join(BaseDir(p), args[p].project_name)
ZipTarget(p) == ZipPath(scen.out, args[p].project_name)

Init ==
  /\ scen \in Scenarios
  /\ fs \in {EmptyFS, UsedFS(scen)}
  /\ pc = [p \in Procs |-> "idle"]
  /\ args = [p \in Procs |-> NoArgs]
  /\ fmd = [p \in Procs |-> <<>>]
  /\ idx = [p \in Procs |-> 0]
  /\ err = [p \in Procs |-> NoErr]
  /\ ret = [p \in Procs |-> NoRet]
  /\ fs0 = [p \in Procs |-> EmptyFS]
  /\ note = [p \in Procs |-> NoNote]
  /\ zipFrom = NoFrom
  /\ pub = [p \in Procs |-> NoPub]
  /\ scan = [p \in Procs |-> NoScan]

\* project names tried with every map, and maps tried with every name
CallInputs ==
  {<<m, scen.vpn>> : m \in FileMaps} \cup
  {<<m, n>> : m \in {DictInput(<<Item(K_a, <<"1">>)>>), BadValueMap}, n \in BadNames}

\* the calls of two invocations at once
ConcInputs == {<<m, scen.vpn>> : m \in ConcMaps}

\* lines 57-58: parse the map, then validate the project name
CallWith(p, inputs) ==
  /\ pc[p] = "idle"
  /\ \E in \in inputs :
       LET parsed == ParseFileMap(in[1])
           verr == IF parsed.err # NoErr THEN parsed.err
                   ELSE ValidateProjectName(in[2])
       IN  /\ args' = [args EXCEPT ![p] = [file_map |-> in[1], project_name |-> in[2]]]
           /\ fmd' = [fmd EXCEPT ![p] = parsed.map]
           /\ err' = [err EXCEPT ![p] = verr]
           /\ pc' = [pc EXCEPT ![p] = IF verr # NoErr THEN "done" ELSE "ensure"]
  /\ idx' = [idx EXCEPT ![p] = 0]
  /\ ret' = [ret EXCEPT ![p] = NoRet]
  /\ fs0' = [fs0 EXCEPT ![p] = fs]
  /\ note' = [note EXCEPT ![p] = [NoNote EXCEPT !.prev = zipFrom]]
  /\ pub' = [pub EXCEPT ![p] = NoPub]
  /\ UNCHANGED <<fs, scen, zipFrom, scan>>

Call(p) == CallWith(p, CallInputs)

\* lines 60-65: an error here leaves json2file before the try block
EnsureDirs(p) ==
  /\ pc[p] = "ensure"
  /\ \E a \in EnsureDirRuns(fs, BaseDir(p)) :
       \E b \in (IF a.ok THEN EnsureDirRuns(a.fs, OutDir(p)) ELSE {a}) :
         /\ fs' = b.fs
         /\ zipFrom' = KeepFrom(b.fs)
         /\ err' = [err EXCEPT ![p] = IF b.ok THEN NoErr ELSE IOFailure]
         /\ pc' = [pc EXCEPT ![p] = IF b.ok THEN "recreate" ELSE "done"]
  /\ UNCHANGED <<scen, args, fmd, idx, ret, fs0, note, pub, scan>>

\* the filesystem start without the content of the staging directory
\* (which _recreate_dir removes), the archive path apart
LessStaging(start, p) ==
  Without(start, {q \in Under(start, TmpProjectDir(p)) :
                    q # ZipTarget(p) /\ ~IsPrefix(q, ZipTarget(p))})

AfterWrite(p, i) == IF i > Len(fmd[p]) THEN "zipopen" ELSE "write"

\* line 70
Recreate(p) ==
  /\ pc[p] = "recreate"
  /\ \E r \in RecreateDirRuns(fs, TmpProjectDir(p)) :
       /\ fs' = r.fs
       /\ zipFrom' = KeepFrom(r.fs)
       /\ err' = [err EXCEPT ![p] = IF r.ok THEN NoErr ELSE IOFailure]
       /\ pc' = [pc EXCEPT ![p] = IF r.ok THEN AfterWrite(p, 1) ELSE "cleanup"]
  /\ idx' = [idx EXCEPT ![p] = 1]
  /\ note' = [note EXCEPT ![p].entered = TRUE]
  /\ fs0' = [fs0 EXCEPT ![p] = LessStaging(@, p)]
  /\ UNCHANGED <<scen, args, fmd, ret, pub, scan>>

\* lines 193-203, one (rel, content) pair
WriteFile(p) ==
  /\ pc[p] = "write"
  /\ \E w \in WriteOneRuns(fs, TmpProjectDir(p),
                            fmd[p][idx[p]][1], fmd[p][idx[p]][2]) :
       /\ fs' = w.fs
       /\ zipFrom' = KeepFrom(w.fs)
       /\ err' = [err EXCEPT ![p] = w.err]
       /\ pc' = [pc EXCEPT ![p] =
                   IF w.err = NoErr THEN AfterWrite(p, idx[p] + 1) ELSE "cleanup"]
       /\ note' = [note EXCEPT ![p].wrote = IF w.err = NoErr THEN @ + 1 ELSE @]
  /\ idx' = [idx EXCEPT ![p] = @ + 1]
  /\ UNCHANGED <<scen, args, fmd, ret, fs0, pub, scan>>

\* lines 211-217: delete the old archive, open the new one
MakeZipOpen(p) ==
  /\ pc[p] = "zipopen"
  /\ \E z \in ZipOpenRuns(fs, ZipTarget(p)) :
       /\ fs' = IF z.ok
                THEN [z.fs EXCEPT !.files[ZipTarget(p)] = HeldBy(@, p)]
                ELSE z.fs
       /\ zipFrom' = IF z.ok
                     THEN [set |-> TRUE, map |-> fmd[p], complete |-> FALSE]
                     ELSE KeepFrom(z.fs)
       /\ err' = [err EXCEPT ![p] = IF z.ok THEN NoErr ELSE IOFailure]
       /\ pc' = [pc EXCEPT ![p] = IF z.ok THEN "zipwrite" ELSE "cleanup"]
       /\ note' = [note EXCEPT ![p].opened = z.ok]
  /\ UNCHANGED <<scen, args, fmd, idx, ret, fs0, pub, scan>>

\* lines 217-223, what the with block leaves at the archive path: the
\* archive of the staged files that rglob lists, which passes over every
\* directory the system refuses to list (it swallows PermissionError) and
\* all that lies under it; or, an exception raised while a staged
\* file is read or the directory listed, the closed archive of the entries
\* stored so far; or, the writing of the archive itself failing, a file
\* that is no archive, empty or cut short
ZipWriteRuns(cur, src, zip_path) ==
  LET all == ZipEntries(cur, src, zip_path)
      dirs == IF IsDir(cur, src) THEN {src} \cup (cur.dirs \cap Under(cur, src))
              ELSE {}
      listed(denied) ==
        {<<ArcName(src, f), EntryBytes(cur, f, zip_path)>> :
           f \in {g \in RglobFiles(cur, src) :
                    \A d \in denied : ~IsPrefix(d, g)}}
  IN  {[ok |-> TRUE, file |-> ZipFile(listed(denied))] : denied \in SUBSET dirs}
        \cup {[ok |-> FALSE, file |-> ZipFile(stored)] : stored \in SUBSET all}
        \cup {[ok |-> FALSE, file |-> f] : f \in {BadZip, TextFile(<<>>)}}

\* lines 217-224: store the staged files and close the archive
MakeZipWrite(p) ==
  /\ pc[p] = "zipwrite"
  /\ \E z \in ZipWriteRuns(fs, TmpProjectDir(p), ZipTarget(p)) :
           LET w == WriteText(fs, ZipTarget(p), z.file)
               ok == w.ok /\ z.ok
           IN  /\ fs' = w.fs
               /\ zipFrom' = IF w.ok /\ z.file.t = "zip"
                             THEN [set |-> TRUE, map |-> fmd[p], complete |-> ok]
                             ELSE KeepFrom(w.fs)
               /\ err' = [err EXCEPT ![p] = IF ok THEN NoErr ELSE IOFailure]
               /\ ret' = [ret EXCEPT ![p] =
                            IF ok THEN [set |-> TRUE, zip_path |-> ZipTarget(p)]
                            ELSE NoRet]
               /\ note' = [note EXCEPT ![p].built = ok]
  /\ pc' = [pc EXCEPT ![p] = "cleanup"]
  /\ UNCHANGED <<scen, args, fmd, idx, fs0, pub, scan>>

\* lines 83-86: the finally block; an exception leaving it would replace
\* the outcome of the try block
Cleanup(p) ==
  /\ pc[p] = "cleanup"
  /\ \E c \in SafeRemoveDirRuns(fs, TmpProjectDir(p)) :
       /\ fs' = c.fs
       /\ zipFrom' = KeepFrom(c.fs)
       /\ err' = [err EXCEPT ![p] = IF c.raised THEN IOFailure ELSE @]
       /\ ret' = [ret EXCEPT ![p] = IF c.raised THEN NoRet ELSE @]
       /\ note' = [note EXCEPT ![p].pend = err[p], ![p].rmFailed = c.failed]
  /\ pc' = [pc EXCEPT ![p] = "done"]
  /\ UNCHANGED <<scen, args, fmd, idx, fs0, pub, scan>>

\* the caller takes the result; a later call may follow
Return(p) ==
  /\ pc[p] = "done"
  /\ pc' = [pc EXCEPT ![p] = "idle"]
  /\ args' = [args EXCEPT ![p] = NoArgs]
  /\ fmd' = [fmd EXCEPT ![p] = <<>>]
  /\ idx' = [idx EXCEPT ![p] = 0]
  /\ err' = [err EXCEPT ![p] = NoErr]
  /\ ret' = [ret EXCEPT ![p] = NoRet]
  /\ fs0' = [fs0 EXCEPT ![p] = EmptyFS]
  /\ note' = [note EXCEPT ![p] = NoNote]
  /\ UNCHANGED <<fs, scen, zipFrom, pub, scan>>

\* a path that holds nothing
MissingPath == <<<<"x">>>>

\* the paths the caller hands to file2storage between calls of json2file:
\* the archive path, the staging directory, what is left in it, a missing
\* path
PubPaths ==
  {ScenZip, Join(scen.base, scen.vpn), MissingPath}
    \cup RglobFiles(fs, Join(scen.base, scen.vpn))

\* lines 88-99
Publish(p) ==
  /\ pc[p] = "idle"
  /\ \E path \in PubPaths, denied \in BOOLEAN :
       LET r == File2Storage(fs, path, denied)
       IN  /\ denied => path # <<>>
           /\ fs' = r.fs
           /\ pub' = [pub EXCEPT ![p] =
                        [set |-> TRUE, path |-> path, err |-> r.err,
                         url |-> r.url, touched |-> r.fs # fs,
                         denied |-> denied]]
  /\ UNCHANGED <<scen, pc, args, fmd, idx, err, ret, fs0, note, zipFrom, scan>>

\* calls made one after the other
Step(p) ==
  \/ Call(p)
  \/ EnsureDirs(p)
  \/ Recreate(p)
  \/ WriteFile(p)
  \/ MakeZipOpen(p)
  \/ MakeZipWrite(p)
  \/ Cleanup(p)
  \/ Publish(p)
  \/ Return(p)

Next == \E p \in SeqProcs : Step(p)

Spec == Init /\ [][Next]_vars

(***************************************************************************)
(* Two invocations of json2file at once.  Each caller makes one call; the  *)
(* steps of the two calls interleave at the system calls they make, on a   *)
(* filesystem that fails only where the other invocation makes it fail.    *)
(* The maps of ConcMaps have plain keys, so a staging directory holds      *)
(* files only; a subdirectory met by rmtree goes in one step and rglob     *)
(* does not descend.                                                       *)
(***************************************************************************)
InitConc ==
  /\ scen \in ConcScenarios
  /\ fs = EmptyFS
  /\ pc = [p \in Procs |-> "idle"]
  /\ args = [p \in Procs |-> NoArgs]
  /\ fmd = [p \in Procs |-> <<>>]
  /\ idx = [p \in Procs |-> 0]
  /\ err = [p \in Procs |-> NoErr]
  /\ ret = [p \in Procs |-> NoRet]
  /\ fs0 = [p \in Procs |-> EmptyFS]
  /\ note = [p \in Procs |-> NoNote]
  /\ zipFrom = NoFrom
  /\ pub = [p \in Procs |-> NoPub]
  /\ scan = [p \in Procs |-> NoScan]

\* the entries of directory d
Children(tree, d) == {q \in Under(tree, d) : Len(q) = Len(d) + 1}

\* the file at path f replaced by file
PutFile(tree, f, file) ==
  [tree EXCEPT !.files = [g \in DOMAIN tree.files \cup {f} |->
                            IF g = f THEN file ELSE tree.files[g]]]

\* open(f, "w") by invocation p: a new empty file of kind t, or the file
\* that is there emptied, its other writers still holding it
OpenForWrite(tree, f, t, p) ==
  PutFile(tree, f,
          HeldBy(IF IsFile(tree, f)
                 THEN [tree.files[f] EXCEPT !.t = t, !.s = <<>>, !.entries = {}]
                 ELSE [t |-> t, s |-> <<>>, entries |-> {}, w |-> <<>>, x |-> FALSE],
                 p))

\* whether the file invocation p opened at f is still the file at f
Holds(tree, f, p) == IsFile(tree, f) /\ p \in DOMAIN tree.files[f].w

\* invocation p closes the file it opened at f, its content becoming new;
\* nothing changes at f when the file has been unlinked since
CloseFile(tree, f, p, new) ==
  IF ~Holds(tree, f, p) THEN tree
  ELSE LET left == DropWriter(tree.files[f].w, p)
       IN  PutFile(tree, f,
                   [new EXCEPT !.w = left,
                               !.x = tree.files[f].x /\ DOMAIN left # {}])

\* the archives the close of invocation p can leave at f
ClosedZips(tree, f, p) ==
  IF ~Holds(tree, f, p) THEN {NoFile}
  ELSE {ZipFile(tree.files[f].w[p])}
         \cup (IF tree.files[f].x THEN {BadZip} ELSE {})

\* the listings of the other invocations over directory d, which
\* invocation p has just removed, no longer lead anywhere
MarkStale(p, d) ==
  [q \in Procs |->
     IF q # p /\ scan[q].dir = d THEN [scan[q] EXCEPT !.stale = TRUE]
     ELSE scan[q]]

\* json2file leaves the try block with an exception
TryFails(p, e) ==
  /\ err' = [err EXCEPT ![p] = e]
  /\ pc' = [pc EXCEPT ![p] = "cleanup"]

CallConc(p) == CallWith(p, ConcInputs)

\* line 64: _ensure_dir(base_dir).  No invocation removes a staging root
\* or the output directory, so the is_dir() that follows an os.mkdir
\* finding the directory there cannot fail and is not a step of its own
EnsureDirsConc(p) ==
  /\ pc[p] = "ensure"
  /\ LET a == EnsureDir(fs, BaseDir(p))
     IN  /\ fs' = a.fs
         /\ err' = [err EXCEPT ![p] = IF a.ok THEN NoErr ELSE IOFailure]
         /\ pc' = [pc EXCEPT ![p] = IF a.ok THEN "ensure_out" ELSE "done"]
  /\ UNCHANGED <<scen, args, fmd, idx, ret, fs0, note, zipFrom, pub, scan>>

\* line 65: _ensure_dir(out_dir)
EnsureOutConc(p) ==
  /\ pc[p] = "ensure_out"
  /\ LET b == EnsureDir(fs, OutDir(p))
     IN  /\ fs' = b.fs
         /\ err' = [err EXCEPT ![p] = IF b.ok THEN NoErr ELSE IOFailure]
         /\ pc' = [pc EXCEPT ![p] = IF b.ok THEN "recreate" ELSE "done"]
  /\ UNCHANGED <<scen, args, fmd, idx, ret, fs0, note, zipFrom, pub, scan>>

\* the positions of shutil.rmtree in _recreate_dir ("rc") and in
\* _safe_remove_dir ("cl")
TreeLabels(ph) ==
  IF ph = "rc"
  THEN [start |-> "recreate", lstat |-> "rc_lstat", open |-> "rc_open",
        fstat |-> "rc_fstat", scandir |-> "rc_scan", unlink |-> "rc_unlink",
        rmdir |-> "rc_rmdir"]
  ELSE [start |-> "cleanup", lstat |-> "cl_lstat", open |-> "cl_open",
        fstat |-> "cl_fstat", scandir |-> "cl_scan", unlink |-> "cl_unlink",
        rmdir |-> "cl_rmdir"]

\* rmtree raises: _recreate_dir lets the exception through,
\* _safe_remove_dir swallows it and json2file is over
TreeRaises(p, ph) ==
  IF ph = "rc"
  THEN /\ TryFails(p, IOFailure)
       /\ UNCHANGED note
  ELSE /\ pc' = [pc EXCEPT ![p] = "done"]
       /\ note' = [note EXCEPT ![p].pend = err[p], ![p].rmFailed = TRUE]
       /\ UNCHANGED err

\* the directory is gone (or was never there): _recreate_dir goes on to
\* mkdir, json2file is over after _safe_remove_dir
TreeDone(p, ph) ==
  IF ph = "rc"
  THEN /\ pc' = [pc EXCEPT ![p] = "rc_mkdir"]
       /\ note' = [note EXCEPT ![p].entered = TRUE]
       /\ UNCHANGED err
  ELSE /\ pc' = [pc EXCEPT ![p] = "done"]
       /\ note' = [note EXCEPT ![p].pend = err[p], ![p].rmFailed = FALSE]
       /\ UNCHANGED err

TreeGoes(p, ph, label) ==
  /\ pc' = [pc EXCEPT ![p] = label]
  /\ note' = IF ph = "rc" THEN [note EXCEPT ![p].entered = TRUE] ELSE note
  /\ UNCHANGED err

\* lines 174 and 182: path.exists()
TreeExists(p, ph) ==
  /\ pc[p] = TreeLabels(ph).start
  /\ IF Exists(fs, TmpProjectDir(p))
     THEN TreeGoes(p, ph, TreeLabels(ph).lstat)
     ELSE TreeDone(p, ph)
  /\ UNCHANGED <<fs, scen, args, fmd, idx, ret, fs0, zipFrom, pub, scan>>

\* rmtree: os.lstat(path)
TreeLstat(p, ph) ==
  /\ pc[p] = TreeLabels(ph).lstat
  /\ IF IsDir(fs, TmpProjectDir(p))
     THEN /\ TreeGoes(p, ph, TreeLabels(ph).open)
          /\ scan' = [scan EXCEPT ![p] =
                        [dir |-> TmpProjectDir(p), left |-> {},
                         stale |-> FALSE, remade |-> FALSE]]
     ELSE /\ TreeRaises(p, ph)
          /\ UNCHANGED scan
  /\ UNCHANGED <<fs, scen, args, fmd, idx, ret, fs0, zipFrom, pub>>

\* rmtree: os.open(path).  It opens the directory now at the path: the
\* one lstat saw or, when the other invocation has removed that one and
\* made the path again since, the new directory
TreeOpen(p, ph) ==
  /\ pc[p] = TreeLabels(ph).open
  /\ IF IsDir(fs, scan[p].dir)
     THEN /\ TreeGoes(p, ph, TreeLabels(ph).fstat)
          /\ scan' = [scan EXCEPT ![p].remade = scan[p].stale,
                                  ![p].stale = FALSE]
     ELSE /\ TreeRaises(p, ph)
          /\ UNCHANGED scan
  /\ UNCHANGED <<fs, scen, args, fmd, idx, ret, fs0, zipFrom, pub>>

\* rmtree: samestat(orig_st, os.fstat(fd)).  A directory made anew at the
\* path passes the comparison when the system has given it the inode
\* number of the one lstat saw, and rmtree goes on into the new directory;
\* otherwise rmtree raises
TreeFstat(p, ph) ==
  /\ pc[p] = TreeLabels(ph).fstat
  /\ \E same \in (IF scan[p].remade THEN BOOLEAN ELSE {TRUE}) :
       IF same THEN TreeGoes(p, ph, TreeLabels(ph).scandir)
       ELSE TreeRaises(p, ph)
  /\ UNCHANGED <<fs, scen, args, fmd, idx, ret, fs0, zipFrom, pub, scan>>

\* rmtree: os.scandir on the open directory
TreeScan(p, ph) ==
  /\ pc[p] = TreeLabels(ph).scandir
  /\ LET found == IF scan[p].stale THEN {} ELSE Children(fs, scan[p].dir)
     IN  /\ scan' = [scan EXCEPT ![p].left = found]
         /\ TreeGoes(p, ph, IF found = {} THEN TreeLabels(ph).rmdir
                            ELSE TreeLabels(ph).unlink)
  /\ UNCHANGED <<fs, scen, args, fmd, idx, ret, fs0, zipFrom, pub>>

\* rmtree: os.unlink of a listed entry, through the open directory
TreeUnlink(p, ph) ==
  /\ pc[p] = TreeLabels(ph).unlink
  /\ \E e \in scan[p].left :
       IF scan[p].stale \/ ~Exists(fs, e)
       THEN /\ TreeRaises(p, ph)
            /\ UNCHANGED <<fs, scan, zipFrom>>
       ELSE /\ fs' = IF IsDir(fs, e) THEN RmTree(fs, e).fs ELSE Unlink(fs, e).fs
            /\ zipFrom' = KeepFrom(fs')
            /\ scan' = [scan EXCEPT ![p].left = @ \ {e}]
            /\ TreeGoes(p, ph, IF scan[p].left = {e} THEN TreeLabels(ph).rmdir
                               ELSE TreeLabels(ph).unlink)
  /\ UNCHANGED <<scen, args, fmd, idx, ret, fs0, pub>>

\* rmtree: os.rmdir(path)
TreeRmdir(p, ph) ==
  /\ pc[p] = TreeLabels(ph).rmdir
  /\ LET d == TmpProjectDir(p)
     IN  IF IsDir(fs, d) /\ Children(fs, d) = {}
         THEN /\ fs' = Without(fs, {d})
              /\ scan' = [MarkStale(p, d) EXCEPT ![p] = NoScan]
              /\ TreeDone(p, ph)
         ELSE /\ TreeRaises(p, ph)
              /\ UNCHANGED <<fs, scan>>
  /\ UNCHANGED <<scen, args, fmd, idx, ret, fs0, zipFrom, pub>>

\* line 176, path.mkdir(parents=True, exist_ok=True): os.mkdir(path).  The
\* staging root is there since line 64, so a path that is not there is
\* made by the one os.mkdir; a path that is there makes os.mkdir raise
\* FileExistsError, and mkdir goes on to is_dir()
RcMkdir(p) ==
  /\ pc[p] = "rc_mkdir"
  /\ IF Exists(fs, TmpProjectDir(p))
     THEN /\ pc' = [pc EXCEPT ![p] = "rc_isdir"]
          /\ UNCHANGED <<fs, err>>
     ELSE LET m == EnsureDir(fs, TmpProjectDir(p))
          IN  /\ fs' = m.fs
              /\ IF m.ok
                 THEN /\ pc' = [pc EXCEPT ![p] = AfterWrite(p, 1)]
                      /\ UNCHANGED err
                 ELSE TryFails(p, IOFailure)
  /\ idx' = [idx EXCEPT ![p] = 1]
  /\ UNCHANGED <<scen, args, fmd, ret, fs0, note, zipFrom, pub, scan>>

\* line 176, path.mkdir after FileExistsError: "if not exist_ok or not
\* self.is_dir(): raise".  The error is raised again when the other
\* invocation has removed the directory in between
RcIsDir(p) ==
  /\ pc[p] = "rc_isdir"
  /\ IF IsDir(fs, TmpProjectDir(p))
     THEN /\ pc' = [pc EXCEPT ![p] = AfterWrite(p, 1)]
          /\ UNCHANGED err
     ELSE TryFails(p, IOFailure)
  /\ UNCHANGED <<fs, scen, args, fmd, idx, ret, fs0, note, zipFrom, pub, scan>>

\* the target of the pair the loop of _write_files is at
WriteTarget(p) ==
  TmpProjectDir(p) \o SanitizeRelpath(fmd[p][idx[p]][1]).parts

\* lines 194-202: the checks of the key, then the os.mkdir of
\* target.parent.mkdir(parents=True, exist_ok=True), which makes the
\* directory when it is not there (with the parents that are missing) and
\* raises FileExistsError when it is, mkdir going on to is_dir()
WrMkdir(p) ==
  /\ pc[p] = "write"
  /\ LET san == SanitizeRelpath(fmd[p][idx[p]][1])
         m == EnsureDir(fs, Parent(WriteTarget(p)))
     IN  IF san.err # NoErr \/ ~Contained(TmpProjectDir(p), WriteTarget(p))
         THEN /\ TryFails(p, UnsafePath)
              /\ UNCHANGED fs
         ELSE IF Exists(fs, Parent(WriteTarget(p)))
         THEN /\ pc' = [pc EXCEPT ![p] = "wr_isdir"]
              /\ UNCHANGED <<fs, err>>
         ELSE /\ fs' = m.fs
              /\ IF m.ok
                 THEN /\ pc' = [pc EXCEPT ![p] = "wr_open"]
                      /\ UNCHANGED err
                 ELSE TryFails(p, IOFailure)
  /\ UNCHANGED <<scen, args, fmd, idx, ret, fs0, note, zipFrom, pub, scan>>

\* line 202, target.parent.mkdir after FileExistsError: is_dir(), the
\* error raised again when the directory is no longer there
WrIsDir(p) ==
  /\ pc[p] = "wr_isdir"
  /\ IF IsDir(fs, Parent(WriteTarget(p)))
     THEN /\ pc' = [pc EXCEPT ![p] = "wr_open"]
          /\ UNCHANGED err
     ELSE TryFails(p, IOFailure)
  /\ UNCHANGED <<fs, scen, args, fmd, idx, ret, fs0, note, zipFrom, pub, scan>>

\* line 203, write_text: the file is created or emptied
WrOpen(p) ==
  /\ pc[p] = "wr_open"
  /\ IF IsDir(fs, WriteTarget(p)) \/ ~IsDir(fs, Parent(WriteTarget(p)))
     THEN /\ TryFails(p, IOFailure)
          /\ UNCHANGED fs
     ELSE /\ fs' = OpenForWrite(fs, WriteTarget(p), "text", p)
          /\ pc' = [pc EXCEPT ![p] = "wr_close"]
          /\ UNCHANGED err
  /\ zipFrom' = KeepFrom(fs')
  /\ UNCHANGED <<scen, args, fmd, idx, ret, fs0, note, pub, scan>>

\* line 203, write_text: the text goes into the file that was opened
WrClose(p) ==
  /\ pc[p] = "wr_close"
  /\ fs' = CloseFile(fs, WriteTarget(p), p, TextFile(fmd[p][idx[p]][2]))
  /\ pc' = [pc EXCEPT ![p] = AfterWrite(p, idx[p] + 1)]
  /\ idx' = [idx EXCEPT ![p] = @ + 1]
  /\ note' = [note EXCEPT ![p].wrote = @ + 1]
  /\ UNCHANGED <<scen, args, fmd, err, ret, fs0, zipFrom, pub, scan>>

\* line 214: zip_path.exists()
ZoExists(p) ==
  /\ pc[p] = "zipopen"
  /\ pc' = [pc EXCEPT ![p] =
              IF Exists(fs, ZipTarget(p)) THEN "zo_unlink" ELSE "zo_open"]
  /\ UNCHANGED <<fs, scen, args, fmd, idx, err, ret, fs0, note, zipFrom, pub, scan>>

\* line 215: zip_path.unlink()
ZoUnlink(p) ==
  /\ pc[p] = "zo_unlink"
  /\ LET u == Unlink(fs, ZipTarget(p))
     IN  /\ fs' = u.fs
         /\ IF u.ok
            THEN /\ pc' = [pc EXCEPT ![p] = "zo_open"]
                 /\ UNCHANGED err
            ELSE TryFails(p, IOFailure)
  /\ zipFrom' = KeepFrom(fs')
  /\ UNCHANGED <<scen, args, fmd, idx, ret, fs0, note, pub, scan>>

\* line 217: zipfile.ZipFile(zip_path, "w") creates the file or empties it
ZoOpen(p) ==
  /\ pc[p] = "zo_open"
  /\ IF IsDir(fs, ZipTarget(p)) \/ ~IsDir(fs, Parent(ZipTarget(p)))
     THEN /\ TryFails(p, IOFailure)
          /\ UNCHANGED <<fs, note, zipFrom>>
     ELSE /\ fs' = OpenForWrite(fs, ZipTarget(p), "zip", p)
          /\ zipFrom' = [set |-> TRUE, map |-> fmd[p], complete |-> FALSE]
          /\ pc' = [pc EXCEPT ![p] = "zipwrite"]
          /\ note' = [note EXCEPT ![p].opened = TRUE]
          /\ UNCHANGED err
  /\ UNCHANGED <<scen, args, fmd, idx, ret, fs0, pub, scan>>

\* the archive is closed by invocation p, as choice says
ZipCloses(p, ok, closed) ==
  /\ fs' = CloseFile(fs, ZipTarget(p), p, closed)
  /\ zipFrom' = IF Holds(fs, ZipTarget(p), p)
                THEN [set |-> TRUE, map |-> fmd[p],
                      complete |-> ok /\ closed.t = "zip"]
                ELSE zipFrom
  /\ err' = [err EXCEPT ![p] = IF ok THEN NoErr ELSE IOFailure]
  /\ ret' = [ret EXCEPT ![p] =
               IF ok THEN [set |-> TRUE, zip_path |-> ZipTarget(p)] ELSE NoRet]
  /\ note' = [note EXCEPT ![p].built = ok]
  /\ pc' = [pc EXCEPT ![p] = "cleanup"]

\* the files invocation p writes into its staging directory
OwnTargets(p) ==
  {TmpProjectDir(p) \o SanitizeRelpath(fmd[p][i][1]).parts : i \in 1..Len(fmd[p])}

\* line 218, src_dir.rglob("*"): is_dir(src_dir)
ZwIsDir(p) ==
  /\ pc[p] = "zipwrite"
  /\ pc' = [pc EXCEPT ![p] =
              IF IsDir(fs, TmpProjectDir(p)) THEN "zw_scan" ELSE "zw_close"]
  /\ note' = [note EXCEPT ![p].missed =
                ~IsDir(fs, TmpProjectDir(p)) /\ OwnTargets(p) # {}]
  /\ UNCHANGED <<fs, scen, args, fmd, idx, err, ret, fs0, zipFrom, pub, scan>>

\* line 218: scandir(src_dir), the entries rglob will yield
ZwScan(p) ==
  /\ pc[p] = "zw_scan"
  /\ IF IsDir(fs, TmpProjectDir(p))
     THEN /\ scan' = [scan EXCEPT ![p] =
                        [dir |-> TmpProjectDir(p),
                         left |-> Children(fs, TmpProjectDir(p)),
                         stale |-> FALSE, remade |-> FALSE]]
          /\ pc' = [pc EXCEPT ![p] =
                      IF Children(fs, TmpProjectDir(p)) = {} THEN "zw_rescan"
                      ELSE "zw_add"]
          /\ note' = [note EXCEPT ![p].missed =
                        ~(OwnTargets(p) \subseteq Children(fs, TmpProjectDir(p)))]
          /\ UNCHANGED <<fs, err, ret, zipFrom>>
     ELSE /\ pc' = [pc EXCEPT ![p] = "zw_abort"]
          /\ UNCHANGED <<fs, err, ret, note, zipFrom, scan>>
  /\ UNCHANGED <<scen, args, fmd, idx, fs0, pub>>

\* lines 219-222: file.is_file(), then zf.write(file).  A file that is
\* gone is skipped when is_file() finds it gone, and makes zf.write raise
\* when it went after is_file()
ZwAdd(p) ==
  /\ pc[p] = "zw_add"
  /\ \E e \in scan[p].left :
       LET next == IF scan[p].left = {e} THEN "zw_rescan" ELSE "zw_add"
           entry == <<ArcName(TmpProjectDir(p), e), EntryBytes(fs, e, ZipTarget(p))>>
       IN  \/ /\ IsFile(fs, e)
              /\ fs' = IF Holds(fs, ZipTarget(p), p)
                       THEN [fs EXCEPT !.files[ZipTarget(p)].w[p] = @ \cup {entry}]
                       ELSE fs
              /\ scan' = [scan EXCEPT ![p].left = @ \ {e}]
              /\ pc' = [pc EXCEPT ![p] = next]
              /\ UNCHANGED <<err, ret, note, zipFrom>>
           \/ /\ ~IsFile(fs, e)
              /\ scan' = [scan EXCEPT ![p].left = @ \ {e}]
              /\ pc' = [pc EXCEPT ![p] = next]
              /\ note' = [note EXCEPT ![p].missed = @ \/ e \in OwnTargets(p)]
              /\ UNCHANGED <<fs, err, ret, zipFrom>>
           \/ /\ ~Exists(fs, e)
              /\ pc' = [pc EXCEPT ![p] = "zw_abort"]
              /\ UNCHANGED <<fs, err, ret, note, zipFrom, scan>>
  /\ UNCHANGED <<scen, args, fmd, idx, fs0, pub>>

\* line 218: rglob lists src_dir once more, for its subdirectories
ZwRescan(p) ==
  /\ pc[p] = "zw_rescan"
  /\ IF IsDir(fs, TmpProjectDir(p))
     THEN /\ pc' = [pc EXCEPT ![p] = "zw_close"]
          /\ UNCHANGED <<fs, err, ret, note, zipFrom>>
     ELSE /\ pc' = [pc EXCEPT ![p] = "zw_abort"]
          /\ UNCHANGED <<fs, err, ret, note, zipFrom>>
  /\ UNCHANGED <<scen, args, fmd, idx, fs0, pub, scan>>

\* line 217, an exception has left the with block: ZipFile.__exit__ closes
\* the archive with the entries stored so far, and the exception goes on
ZwAbort(p) ==
  /\ pc[p] = "zw_abort"
  /\ \E closed \in ClosedZips(fs, ZipTarget(p), p) : ZipCloses(p, FALSE, closed)
  /\ UNCHANGED <<scen, args, fmd, idx, fs0, pub, scan>>

\* line 217: the with block ends and the archive is closed
ZwClose(p) ==
  /\ pc[p] = "zw_close"
  /\ \E closed \in ClosedZips(fs, ZipTarget(p), p) : ZipCloses(p, TRUE, closed)
  /\ UNCHANGED <<scen, args, fmd, idx, fs0, pub, scan>>

StepConc(p) ==
  \/ CallConc(p)
  \/ EnsureDirsConc(p)
  \/ EnsureOutConc(p)
  \/ TreeExists(p, "rc")
  \/ TreeLstat(p, "rc")
  \/ TreeOpen(p, "rc")
  \/ TreeFstat(p, "rc")
  \/ TreeScan(p, "rc")
  \/ TreeUnlink(p, "rc")
  \/ TreeRmdir(p, "rc")
  \/ RcMkdir(p)
  \/ RcIsDir(p)
  \/ WrMkdir(p)
  \/ WrIsDir(p)
  \/ WrOpen(p)
  \/ WrClose(p)
  \/ ZoExists(p)
  \/ ZoUnlink(p)
  \/ ZoOpen(p)
  \/ ZwIsDir(p)
  \/ ZwScan(p)
  \/ ZwAdd(p)
  \/ ZwRescan(p)
  \/ ZwAbort(p)
  \/ ZwClose(p)
  \/ TreeExists(p, "cl")
  \/ TreeLstat(p, "cl")
  \/ TreeOpen(p, "cl")
  \/ TreeFstat(p, "cl")
  \/ TreeScan(p, "cl")
  \/ TreeUnlink(p, "cl")
  \/ TreeRmdir(p, "cl")

NextConc == \E p \in Procs : StepConc(p)

SpecConc == InitConc /\ [][NextConc]_vars

(***************************************************************************)
(* Vocabulary of the properties.                                           *)
(***************************************************************************)
Done(p) == pc[p] = "done"
Returned(p) == pc[p] = "done" /\ err[p] = NoErr
Failed(p) == pc[p] = "done" /\ err[p] # NoErr

\* the entries of an archive as (name text, content) pairs
NamedEntries(file) == {<<JoinStr(e[1]), e[2]>> : e \in file.entries}

\* the layout the specification gives: project_name/<key> for each key
LayoutOf(pn, map) ==
  {<<pn \o <<SLASH>> \o map[i][1], map[i][2]>> : i \in 1..Len(map)}

HoldsLayout(file, pn, map) ==
  /\ file.t = "zip"
  /\ NamedEntries(file) = LayoutOf(pn, map)
  /\ Cardinality(file.entries) = Len(map)

AllKeysSanitize(map) ==
  \A i \in 1..Len(map) : SanitizeRelpath(map[i][1]).err = NoErr

\* C1: after a successful pack of a map whose keys all pass sanitization
\* the archive at output_dir/project_name.zip holds exactly one entry
\* project_name/<key> per key, with the key's content
C1_ArchiveIsTheMap ==
  \A p \in Procs :
    (Returned(p) /\ AllKeysSanitize(fmd[p]))
      => HoldsLayout(FileAt(fs, ZipTarget(p)), args[p].project_name, fmd[p])

BackToFront(s) == [i \in 1..Len(s) |-> IF s[i] = BSLASH THEN SLASH ELSE s[i]]

\* the keys the specification calls unsafe: rooted at "/" or at a drive
\* letter, or with a ".." segment under either separator
NamedUnsafe(k) ==
  \/ Len(k) >= 1 /\ (k[1] = SLASH \/ k[1] = BSLASH)
  \/ Len(k) >= 3 /\ k[2] = ":" /\ (k[3] = SLASH \/ k[3] = BSLASH)
  \/ \E i \in 1..Len(SplitOn(BackToFront(k), SLASH)) :
       SplitOn(BackToFront(k), SLASH)[i] = DOTDOT

\* C2: a map with an absolute key or a key with a ".." segment (split on
\* "/" or on "\") makes pack fail with UnsafePath, unless an I/O failure
\* comes first, and no archive is built
C2_UnsafeKeysRejected ==
  \A p \in Procs :
    (Done(p) /\ note[p].entered
       /\ \E i \in 1..Len(fmd[p]) : NamedUnsafe(fmd[p][i][1]))
      => (err[p] \in {UnsafePath, IOFailure} /\ ~note[p].built)

\* the names the specification rejects
NamedBad(pn) ==
  \/ pn = <<>>
  \/ Contains(pn, SLASH)
  \/ Contains(pn, BSLASH)
  \/ HasSubstr(pn, DOTDOT)

\* C3 as stated: a bad project name always fails with InvalidProjectName,
\* nothing on disk touched
C3_BadNameAlwaysInvalidProjectName ==
  \A p \in Procs :
    (pc[p] # "idle" /\ NamedBad(args[p].project_name))
      => (pc[p] = "done" /\ err[p] = InvalidProjectName /\ fs = fs0[p])

\* C3 (amended): when the file map parses to a string-to-string mapping, a
\* bad project name fails with InvalidProjectName before anything on disk
\* is created or modified
C3_BadNameRejectedAfterParse ==
  \A p \in Procs :
    (pc[p] # "idle" /\ NamedBad(args[p].project_name)
       /\ ParseFileMap(args[p].file_map).err = NoErr)
      => (pc[p] = "done" /\ err[p] = InvalidProjectName /\ fs = fs0[p]
          /\ ~note[p].entered)

C3_Witness ==
  \E p \in Procs :
    /\ pc[p] = "done" /\ err[p] = InvalidProjectName
    /\ args[p].project_name = <<"d", ".", ".", "m">>
    /\ IsFile(fs, ZipPath(scen.out, scen.vpn))

\* C4: once a pack that entered its try block is over, with a result or
\* with an error, the staging directory is gone unless its removal failed
C4_StagingRemoved ==
  \A p \in Procs :
    (Done(p) /\ note[p].entered /\ ~note[p].rmFailed)
      => ~Exists(fs, TmpProjectDir(p))

C4_Witness ==
  \E p \in Procs :
    /\ Failed(p) /\ note[p].entered /\ ~note[p].rmFailed
    /\ note[p].wrote >= 1
    /\ Exists(fs0[p], TmpProjectDir(p))
    /\ ~Exists(fs, TmpProjectDir(p))

\* C5: a second successful pack with the same directories and name but
\* another map leaves an archive holding exactly the second map's entries,
\* none of the entries that were in the archive before
C5_ArchiveReplaced ==
  \A p \in Procs :
    (Returned(p)
       /\ note[p].prev.set /\ note[p].prev.complete
       /\ note[p].prev.map # fmd[p])
      => /\ HoldsLayout(FileAt(fs, ZipTarget(p)), args[p].project_name, fmd[p])
         /\ \A e \in NamedEntries(FileAt(fs0[p], ZipTarget(p))) :
              e \notin LayoutOf(args[p].project_name, fmd[p])
                => e \notin NamedEntries(FileAt(fs, ZipTarget(p)))

\* C6: a successful pack returns output_dir/project_name.zip and a regular
\* file is there once the cleanup has run, wherever output_dir lies
C6_ReturnedArchiveExists ==
  \A p \in Procs :
    Returned(p)
      => /\ ret[p].set
         /\ ret[p].zip_path = ZipPath(scen.out, args[p].project_name)
         /\ IsFile(fs, ret[p].zip_path)

\* C7: when a validation error is raised no entry of the call has been
\* written, and an UnsafePath finds the staging directory empty
C7_ValidationBeforeWrites ==
  \A p \in Procs :
    /\ (Done(p) /\ err[p] \in ValidationErrors) => note[p].wrote = 0
    /\ (pc[p] = "cleanup" /\ err[p] = UnsafePath)
         => (note[p].wrote = 0 /\ RglobFiles(fs, TmpProjectDir(p)) = {})

\* C8: a pack that fails with a validation error leaves whatever is at
\* output_dir/project_name.zip as it was before the call
C8_ValidationKeepsArchive ==
  \A p \in Procs :
    (Done(p) /\ err[p] \in ValidationErrors)
      => /\ FileAt(fs, ZipTarget(p)) = FileAt(fs0[p], ZipTarget(p))
         /\ IsDir(fs, ZipTarget(p)) <=> IsDir(fs0[p], ZipTarget(p))

\* C9: a failed cleanup changes nothing of the outcome: a built archive's
\* path is still returned, an error of the earlier steps is still the
\* error raised
C9_CleanupFailureSwallowed ==
  \A p \in Procs :
    (Done(p) /\ note[p].rmFailed)
      => /\ err[p] = note[p].pend
         /\ note[p].built
              => (err[p] = NoErr /\ ret[p].set /\ ret[p].zip_path = ZipTarget(p))
         /\ ~note[p].built => err[p] # NoErr

C9_Witness ==
  \E p \in Procs :
    /\ Done(p) /\ note[p].rmFailed /\ note[p].built
    /\ ret[p].set /\ IsFile(fs, ret[p].zip_path)
    /\ Exists(fs, TmpProjectDir(p))

\* C10: a successful pack that repeats the map of the call that completed
\* the archive now at the archive path, with the same directories and
\* name, leaves there an archive with the same entries and contents,
\* whatever happened in between (the archive path taken outside the
\* staging directory, where the cleanup does not reach it)
C10_RepeatableArchive ==
  \A p \in Procs :
    (Returned(p)
       /\ note[p].prev.set /\ note[p].prev.complete
       /\ note[p].prev.map = fmd[p]
       /\ ~IsPrefix(TmpProjectDir(p), ZipTarget(p)))
      => /\ IsFile(fs, ZipTarget(p))
         /\ FileAt(fs, ZipTarget(p)) = FileAt(fs0[p], ZipTarget(p))

\* the kind the specification gives for an input of the mapping parser
NamedParseKind(raw) ==
  IF raw.tag = "dict"
  THEN IF \E i \in 1..Len(raw.items) :
            raw.items[i][1].t # "str" \/ raw.items[i][2].t # "str"
       THEN InvalidFileMap ELSE NoErr
  ELSE IF raw.tag = "text"
  THEN IF ~raw.wf THEN InvalidJson
       ELSE IF raw.top # "obj" THEN InvalidFileMap
       ELSE IF \E i \in 1..Len(raw.items) : raw.items[i][2].t # "str"
            THEN InvalidFileMap ELSE NoErr
  ELSE InvalidFileMap

\* the mapping an input denotes: each key with the last value given for it
MappingOf(raw) ==
  {<<raw.items[i][1].s, raw.items[i][2].s>> :
     i \in {j \in 1..Len(raw.items) :
              \A k \in (j + 1)..Len(raw.items) :
                raw.items[k][1] # raw.items[j][1]}}

\* C11: the mapping parser fails with InvalidFileMap on a mapping with a
\* non-string key or value, on text that parses to a non-object or to an
\* object with a non-string value and on any other input type, with
\* InvalidJson on text that is not JSON; otherwise it yields the string to
\* string mapping the input denotes; in every case the filesystem is as it
\* was when the parser has run
C11_ParserClassifies ==
  \A p \in Procs :
    pc[p] # "idle" =>
      LET kind == NamedParseKind(args[p].file_map)
      IN  /\ kind # NoErr
               => (pc[p] = "done" /\ err[p] = kind /\ fs = fs0[p]
                   /\ ~note[p].entered)
          /\ kind = NoErr
               => /\ err[p] \notin {InvalidFileMap, InvalidJson}
                  /\ {<<fmd[p][i][1], fmd[p][i][2]>> : i \in 1..Len(fmd[p])}
                       = MappingOf(args[p].file_map)
                  /\ Len(fmd[p]) = Cardinality(MappingOf(args[p].file_map))
                  /\ pc[p] = "ensure" => fs = fs0[p]

C11_Witness ==
  \E p \in Procs :
    /\ pc[p] = "done" /\ err[p] = InvalidJson
    /\ args[p].file_map = MalformedText
    /\ IsFile(fs, ScenZip) /\ fs = fs0[p]

\* the character two hexadecimal digits stand for
CharOfHex(h) ==
  CASE h = <<"5", "C">> -> "\\"
    [] h = <<"3", "A">> -> ":"
    [] h = <<"2", "0">> -> " "
    [] h = <<"2", "5">> -> "%"
    [] OTHER -> "?"

RECURSIVE Unquote(_)
\* percent-decoding
Unquote(s) ==
  IF s = <<>> THEN <<>>
  ELSE IF Head(s) = "%" /\ Len(s) >= 3
       THEN <<CharOfHex(<<s[2], s[3]>>)>> \o Unquote(SubSeq(s, 4, Len(s)))
       ELSE <<Head(s)>> \o Unquote(Tail(s))

\* C12: file2storage fails with FileNotFound on a path that is missing or
\* not a regular file, otherwise returns "file://" followed by the file's
\* absolute path (in the percent-encoded form section 4.5 gives the URL:
\* the text after the scheme decodes to the path); the filesystem is
\* untouched
C12_UrlIsSchemeThenPath ==
  \A p \in Procs :
    pub[p].set =>
      /\ ~pub[p].touched
      /\ ~IsFile(fs, pub[p].path)
           => (pub[p].err = FileNotFound /\ pub[p].url = <<>>)
      /\ IsFile(fs, pub[p].path)
           => /\ pub[p].err = NoErr
              /\ IsPrefix(FileScheme, pub[p].url)
              /\ Unquote(SubSeq(pub[p].url, Len(FileScheme) + 1,
                                Len(pub[p].url)))
                   = AsPosix(pub[p].path)

\* a key with an empty path segment: the empty key, or a leading, trailing
\* or doubled "/"
HasEmptySegment(k) ==
  \E i \in 1..Len(SplitOn(k, SLASH)) : SplitOn(k, SLASH)[i] = EMPTY

\* C13: sanitization fails with UnsafePath on every key that has an empty
\* path segment, and no such key is written to the staging directory
C13_EmptySegmentRejected ==
  \A p \in Procs :
    \A i \in 1..Len(fmd[p]) :
      HasEmptySegment(fmd[p][i][1])
        => /\ SanitizeRelpath(fmd[p][i][1]).err = UnsafePath
           /\ note[p].wrote < i

RECURSIVE Walk(_, _)
\* the directory reached from cur by the segments segs, ".." going up
Walk(cur, segs) ==
  IF segs = <<>> THEN cur
  ELSE IF Head(segs) = DOTDOT THEN Walk(Parent(cur), Tail(segs))
  ELSE Walk(Append(cur, Head(segs)), Tail(segs))

\* the resolved target of key k under root
NamedTarget(root, k) ==
  Walk(IF IsAbsolute(k) THEN <<>> ELSE root, SelectParts(SplitOn(k, SLASH)))

StrictlyInside(root, t) == IsPrefix(root, t) /\ t # root

\* C14: while a pack writes its entries every file it has created or
\* changed lies strictly inside the staging directory, and a key whose
\* resolved target is the staging directory or lies outside it is refused
\* with UnsafePath, the filesystem left as it is
C14_WritesStrictlyInside ==
  \A p \in Procs :
    /\ pc[p] \in {"write", "zipopen"}
         => \A f \in DOMAIN fs.files :
              (f \notin DOMAIN fs0[p].files \/ fs.files[f] # fs0[p].files[f])
                => StrictlyInside(TmpProjectDir(p), f)
    /\ pc[p] = "write"
         => LET k == fmd[p][idx[p]][1]
                w == WriteOne(fs, TmpProjectDir(p), k, fmd[p][idx[p]][2])
            IN  ~StrictlyInside(TmpProjectDir(p), NamedTarget(TmpProjectDir(p), k))
                  => (w.err = UnsafePath /\ w.fs = fs)

\* C15: when the archive fails to build after the old archive was deleted
\* and the new one opened, nothing is at output_dir/project_name.zip once
\* pack has returned its error
C15_FailedBuildLeavesNoArchive ==
  \A p \in Procs :
    (Failed(p) /\ note[p].opened /\ ~note[p].built)
      => ~Exists(fs, ZipTarget(p))

\* C16: for an accepted project name the staging directory is the staging
\* root plus one component, and the files that were outside it when the
\* call started are still there after the staging directory was recreated
\* and after it was cleaned up, the replaced archive apart
C16_StagingIsStrictChild ==
  \A p \in Procs :
    (pc[p] # "idle" /\ ParseFileMap(args[p].file_map).err = NoErr
       /\ ValidateProjectName(args[p].project_name) = NoErr)
      => /\ IsPrefix(BaseDir(p), TmpProjectDir(p))
         /\ Len(TmpProjectDir(p)) = Len(BaseDir(p)) + 1
         /\ pc[p] \in {"write", "zipopen", "done"}
              => \A f \in DOMAIN fs0[p].files :
                   (~IsPrefix(BaseDir(p) \o <<args[p].project_name>>, f)
                      /\ f # ZipTarget(p))
                     => f \in DOMAIN fs.files

\* invocation p is between its first write and the close of its archive
InFlight(p) ==
  pc[p] \in {"write", "wr_isdir", "wr_open", "wr_close", "zipopen",
             "zo_unlink", "zo_open", "zipwrite", "zw_scan", "zw_add",
             "zw_rescan", "zw_abort", "zw_close"}

\* the files invocation p has written so far are in its staging directory
OwnFilesStaged(p) ==
  \A i \in 1..note[p].wrote :
    FileAt(fs, TmpProjectDir(p) \o PathParts(fmd[p][i][1]))
      = TextFile(fmd[p][i][2])

\* the entries the rmtree of invocation q unlinks in this step
Unlinked(q) ==
  IF pc[q] \in {"rc_unlink", "cl_unlink"} /\ pc'[q] \in {"rc_unlink", "rc_rmdir", "cl_unlink", "cl_rmdir"}
  THEN scan[q].left \ scan'[q].left
  ELSE {}

\* C17: when two invocations share the staging root and the project name,
\* the recreate or cleanup step of one deletes the files the other has
\* written and not archived yet, and an invocation that did not find one
\* of its files when it built its archive does not close an archive that
\* holds exactly the entries of its map
C17_RecreateDeletesOthersFiles ==
  [][\A p, q \in Procs :
       (p # q /\ TmpProjectDir(p) = TmpProjectDir(q))
         => /\ InFlight(p)
                 => \A e \in Unlinked(q) \cap OwnTargets(p) : ~Exists(fs', e)
            /\ (pc[p] = "zw_close" /\ pc'[p] = "cleanup" /\ note[p].missed
                  /\ Holds(fs, ZipTarget(p), p))
                 => ~HoldsLayout(FileAt(fs', ZipTarget(p)),
                                 args[p].project_name, fmd[p])]_vars

\* an invocation has returned with success an archive that is not the
\* archive of its map, the other invocation having deleted a file it had
\* written before it archived it
C17_Witness ==
  \E p, q \in Procs :
    /\ p # q /\ TmpProjectDir(p) = TmpProjectDir(q)
    /\ Returned(p) /\ note[p].wrote = Len(fmd[p]) /\ note[p].missed
    /\ ret[p].set /\ IsFile(fs, ret[p].zip_path)
    /\ zipFrom.map = fmd[p] /\ zipFrom.complete
    /\ ~HoldsLayout(FileAt(fs, ret[p].zip_path), args[p].project_name, fmd[p])
    /\ pc[q] \in {"rc_mkdir", "write", "wr_open"}

\* C18: invocations with distinct staging roots do not disturb each
\* other: the files an invocation has written stay in its staging
\* directory until it has archived them, and when an invocation returns
\* with success the archive at the path it returns holds exactly the
\* entries of its own map
C18_DistinctRootsIndependent ==
  [][\A p \in Procs :
       scen.base # scen.base2
         => /\ InFlight(p) => OwnFilesStaged(p)
            /\ (pc[p] # "done" /\ pc'[p] = "done" /\ err'[p] = NoErr)
                 => HoldsLayout(FileAt(fs', ZipTarget(p)),
                                args[p].project_name, fmd[p])]_vars

====
